---- MODULE Spec2Model ----
(***************************************************************************)
(* A model of src/main.c: main() loads a file into a heap buffer and       *)
(* interpret() scans a bounded working copy of it with strtok, echoing the *)
(* token that follows each `print` command.                                *)
(*                                                                         *)
(* Characters are their ASCII codes, strings are sequences of characters,  *)
(* and pointers into code_copy are 0-based offsets, as in the C code (the  *)
(* character at offset i of a buffer b is b[i+1]).  NULL is -1.            *)
(* The file is a regular, seekable file (ftell reports its length).        *)
(***************************************************************************)
EXTENDS Integers, Sequences, FiniteSets, TLC

\* #define MAX_CODE_SIZE 1000
MAX_CODE_SIZE == 1000

\* const char* delimiter = " \t\n";
delimiter == {32, 9, 10}

\* the string literal "print"
KwPrint == <<112, 114, 105, 110, 116>>

\* the format prefix "Printed: " of printf("Printed: %s\n", token)
PrintedPrefix == <<80, 114, 105, 110, 116, 101, 100, 58, 32>>

NULL == 0 - 1

(***************************************************************************)
(* The input files the model runs the program on.  A body is at most       *)
(* MaxPieces pieces, a piece being a word (nothing, `print` or `x`)        *)
(* followed by a separator (nothing, a space, or a tab and a newline).     *)
(* A file is a body, or a body of at most MaxPadPieces pieces behind a run *)
(* of spaces that ends 1..MaxNear characters short of MAX_CODE_SIZE, so    *)
(* that the body lies across the capacity of the working copy.             *)
(***************************************************************************)
MaxPieces == 3
MaxPadPieces == 2
MaxNear == 8

Words == {<<>>, KwPrint, <<120>>}
Seps == {<<>>, <<32>>, <<9, 10>>}
Pieces == {w \o s : w \in Words, s \in Seps}

RECURSIVE Flatten(_)
Flatten(ps) == IF ps = <<>> THEN <<>> ELSE Head(ps) \o Flatten(Tail(ps))

Bodies(n) == {Flatten(ps) : ps \in UNION {[1..k -> Pieces] : k \in 0..n}}

Pad(n) == [i \in 1..n |-> 32]

Files ==
    Bodies(MaxPieces) \cup
    {Pad(MAX_CODE_SIZE - k) \o b : k \in 1..MaxNear, b \in Bodies(MaxPadPieces)}

FileSizes == {Len(f) : f \in Files}

\* values an uninitialised byte is seen to hold
Garbage == {0, 120}

\* the command lines: argv[0] alone, one path, two paths
ArgCounts == {1, 2, 3}

(***************************************************************************)
(* C strings and the libc functions interpret() calls.                     *)
(***************************************************************************)
Min(S) == CHOOSE x \in S : \A y \in S : x <= y

\* the character at offset i of the array code_copy; an offset outside the
\* array reads as a terminator (the caller records the offset in hi)
At(buf, i) == IF i < Len(buf) THEN buf[i + 1] ELSE 0

\* strlen of the string starting at offset s of buf
strlen(buf, s) ==
    (CHOOSE j \in s..Len(buf) :
        /\ At(buf, j) = 0
        /\ \A k \in s..(j - 1) : At(buf, k) # 0) - s

\* the C string starting at offset s of buf, without its terminator
CStr(buf, s) == SubSeq(buf, s + 1, s + strlen(buf, s))

\* strspn(buf + s, delimiter): length of the leading run of delimiters
strspn(buf, s) ==
    (CHOOSE j \in s..Len(buf) :
        /\ At(buf, j) \notin delimiter
        /\ \A k \in s..(j - 1) : At(buf, k) \in delimiter) - s

\* strcspn(buf + s, delimiter): length of the leading run of non-delimiters
strcspn(buf, s) ==
    (CHOOSE j \in s..Len(buf) :
        /\ At(buf, j) \in delimiter \cup {0}
        /\ \A k \in s..(j - 1) : At(buf, k) \notin delimiter \cup {0}) - s

\* strncpy(dst, src, n) into an array of n characters: the characters of
\* src up to its terminator, then terminators up to n characters in all;
\* no terminator is written when src has n or more characters
strncpy(src, n) ==
    IF strlen(src, 0) >= n
    THEN SubSeq(src, 1, n)
    ELSE CStr(src, 0) \o [i \in 1..(n - strlen(src, 0)) |-> 0]

\* variant: the terminator written one character early
TerminateCopy_Early(buf) == [buf EXCEPT ![MAX_CODE_SIZE - 1] = 0]

\* variant: line 12 left out
TerminateCopy_None(buf) == buf

\* code_copy[sizeof(code_copy) - 1] = '\0';
TerminateCopy(buf) == [buf EXCEPT ![MAX_CODE_SIZE] = 0]

\* variant: a strtok that does not skip the delimiters before a token
strtok_NoSkip(buf, s) ==
    LET b == s
        e == b + strcspn(buf, b)
    IN  IF At(buf, b) = 0
        THEN [tok |-> NULL, olds |-> b, buf |-> buf, hi |-> b]
        ELSE IF At(buf, e) = 0
        THEN [tok |-> b, olds |-> e, buf |-> buf, hi |-> e]
        ELSE [tok |-> b, olds |-> e + 1,
              buf |-> [buf EXCEPT ![e + 1] = 0], hi |-> e]

\* strtok(s, delimiter), s being the start of the buffer on the first call
\* and the saved pointer afterwards: the token's offset (or NULL), the new
\* saved pointer, the buffer with the token's end overwritten, and the
\* highest offset read
strtok(buf, s) ==
    LET b == s + strspn(buf, s)
        e == b + strcspn(buf, b)
    IN  IF At(buf, b) = 0
        THEN [tok |-> NULL, olds |-> b, buf |-> buf, hi |-> b]
        ELSE IF At(buf, e) = 0
        THEN [tok |-> b, olds |-> e, buf |-> buf, hi |-> e]
        ELSE [tok |-> b, olds |-> e + 1,
              buf |-> [buf EXCEPT ![e + 1] = 0], hi |-> e]

\* variant: strncmp(buf + t, "print", 5) == 0
IsPrint_Prefix(buf, t) ==
    /\ strlen(buf, t) >= Len(KwPrint)
    /\ SubSeq(buf, t + 1, t + Len(KwPrint)) = KwPrint

\* strcmp(buf + t, "print") == 0
IsPrint(buf, t) == CStr(buf, t) = KwPrint

\* the highest offset strcmp(buf + t, "print") reads: that of the first
\* character that differs from "print" (with its terminator)
strcmpHi(buf, t) ==
    LET kw == KwPrint \o <<0>>
        d  == {i \in 0..(Len(kw) - 1) : At(buf, t + i) # kw[i + 1]}
    IN  IF d = {} THEN t + Len(kw) - 1 ELSE t + Min(d)

\* variant: the format without its newline
PrintedLine_NoNewline(buf, t) == PrintedPrefix \o CStr(buf, t)

\* what printf("Printed: %s\n", buf + t) writes; the string ends at the
\* terminator strtok has already read
PrintedLine(buf, t) == PrintedPrefix \o CStr(buf, t) \o <<10>>

Max(a, b) == IF a >= b THEN a ELSE b

(***************************************************************************)
(* State.                                                                  *)
(***************************************************************************)
VARIABLES
    pc,         \* the statement main() or interpret() is at
    argc,       \* main's argc
    fh,         \* the FILE* file: "none", "open", "closed"
    size,       \* long size
    heap,       \* the allocation code points to: "none", "null", "live", "freed"
    code,       \* the contents of the buffer code points to
    nread,      \* what fread returned, NULL before the call
    code_copy,  \* interpret's array, <<>> outside the call
    olds,       \* strtok's saved pointer, an offset into code_copy
    token,      \* interpret's token, an offset into code_copy or NULL
    out,        \* the characters written to standard output
    err,        \* the messages written to standard error
    exitCode,   \* main's return value, NULL while it runs
    fcloses,    \* number of fclose(file) calls made
    frees,      \* number of free(code) calls made
    hi,         \* highest offset of code_copy the scan has read or written
    toks,       \* the tokens strtok has returned, in order: offset and text
    cmds,       \* the offsets of the tokens compared to "print" (line 16)
    args        \* the offsets of the tokens printed as arguments (line 19)

vars == <<pc, argc, fh, size, heap, code, nread, code_copy, olds, token,
          out, err, exitCode, fcloses, frees, hi, toks, cmds, args>>

mainVars == <<argc, fh, size, heap, code, nread, exitCode, fcloses, frees>>
scanVars == <<code_copy, olds, token, hi, toks, cmds, args>>

UsageMsg == "Usage: ./interpreter <filename>\n"
OpenMsg == "Failed to open the file '%s'\n"
AllocMsg == "Memory allocation error\n"
ReadMsg == "Failed to read the file '%s'\n"
MissingMsg == "Error: Missing argument for print\n"

Init ==
    /\ pc = "start"
    /\ argc \in ArgCounts
    /\ fh = "none"
    /\ size = 0
    /\ heap = "none"
    /\ code = <<>>
    /\ nread = NULL
    /\ code_copy = <<>>
    /\ olds = NULL
    /\ token = NULL
    /\ out = <<>>
    /\ err = <<>>
    /\ exitCode = NULL
    /\ fcloses = 0
    /\ frees = 0
    /\ hi = NULL
    /\ toks = <<>>
    /\ cmds = {}
    /\ args = {}

(***************************************************************************)
(* main                                                                    *)
(***************************************************************************)
\* lines 30-33: if (argc != 2) { usage; return 1; }
CheckArgs ==
    /\ pc = "start"
    /\ IF argc # 2
       THEN /\ err' = Append(err, UsageMsg)
            /\ exitCode' = 1
            /\ pc' = "exit"
       ELSE /\ pc' = "fopen"
            /\ UNCHANGED <<err, exitCode>>
    /\ UNCHANGED <<argc, fh, size, heap, code, nread, fcloses, frees, out>>
    /\ UNCHANGED scanVars

\* lines 36-41: file = fopen(filename, "r"); if (!file) { message; return 1; }
Fopen ==
    /\ pc = "fopen"
    /\ \/ /\ fh' = "open"
          /\ pc' = "ftell"
          /\ UNCHANGED <<err, exitCode>>
       \/ /\ err' = Append(err, OpenMsg)
          /\ exitCode' = 1
          /\ pc' = "exit"
          /\ UNCHANGED fh
    /\ UNCHANGED <<argc, size, heap, code, nread, fcloses, frees, out>>
    /\ UNCHANGED scanVars

\* lines 44-46: fseek(file, 0, SEEK_END); size = ftell(file); rewind(file);
Ftell ==
    /\ pc = "ftell"
    /\ \E n \in FileSizes : size' = n
    /\ pc' = "malloc"
    /\ UNCHANGED <<argc, fh, heap, code, nread, exitCode, fcloses, frees, out, err>>
    /\ UNCHANGED scanVars

\* lines 49-51: code = malloc(size + 1); if (!code) { message; ...
Malloc ==
    /\ pc = "malloc"
    /\ \/ /\ heap' = "live"
          /\ \E g \in Garbage : code' = [i \in 1..(size + 1) |-> g]
          /\ pc' = "fread"
          /\ UNCHANGED err
       \/ /\ heap' = "null"
          /\ err' = Append(err, AllocMsg)
          /\ pc' = "nomem_fclose"
          /\ UNCHANGED code
    /\ UNCHANGED <<argc, fh, size, nread, exitCode, fcloses, frees, out>>
    /\ UNCHANGED scanVars

\* fclose(file)
DoFclose ==
    /\ fh' = "closed"
    /\ fcloses' = fcloses + 1

\* free(code): the buffer and its contents are gone
DoFree ==
    /\ heap' = "freed"
    /\ code' = <<>>
    /\ frees' = frees + 1

\* variant: the allocation-failure path returns without closing the file
NoMemFclose_Leak ==
    /\ pc = "nomem_fclose"
    /\ exitCode' = 1
    /\ pc' = "exit"
    /\ UNCHANGED <<argc, fh, fcloses, size, heap, code, nread, frees, out, err>>
    /\ UNCHANGED scanVars

\* lines 52-53: fclose(file); return 1;
NoMemFclose ==
    /\ pc = "nomem_fclose"
    /\ DoFclose
    /\ exitCode' = 1
    /\ pc' = "exit"
    /\ UNCHANGED <<argc, size, heap, code, nread, frees, out, err>>
    /\ UNCHANGED scanVars

\* the counts fread(code, 1, n, file) may return: n, or less when the file
\* has shrunk since it was measured
ReadCounts(n) == {0, n - 1, n} \cap (0..n)

\* lines 57-58: if (fread(code, 1, size, file) != size) { message; ...
Fread ==
    /\ pc = "fread"
    /\ \E f \in Files, n \in ReadCounts(size) :
          /\ Len(f) = size
          /\ nread' = n
          /\ code' = [i \in 1..(size + 1) |-> IF i <= n THEN f[i] ELSE code[i]]
    /\ IF nread' # size
       THEN /\ err' = Append(err, ReadMsg)
            /\ pc' = "short_free"
       ELSE /\ pc' = "terminate"
            /\ UNCHANGED err
    /\ UNCHANGED <<argc, fh, size, heap, exitCode, fcloses, frees, out>>
    /\ UNCHANGED scanVars

\* line 59: free(code);
ShortFree ==
    /\ pc = "short_free"
    /\ DoFree
    /\ pc' = "short_fclose"
    /\ UNCHANGED <<argc, fh, size, nread, exitCode, fcloses, out, err>>
    /\ UNCHANGED scanVars

\* variant: the short-read path returns 0
ShortFclose_Ret0 ==
    /\ pc = "short_fclose"
    /\ DoFclose
    /\ exitCode' = 0
    /\ pc' = "exit"
    /\ UNCHANGED <<argc, size, heap, code, nread, frees, out, err>>
    /\ UNCHANGED scanVars

\* lines 60-61: fclose(file); return 1;
ShortFclose ==
    /\ pc = "short_fclose"
    /\ DoFclose
    /\ exitCode' = 1
    /\ pc' = "exit"
    /\ UNCHANGED <<argc, size, heap, code, nread, frees, out, err>>
    /\ UNCHANGED scanVars

\* variant: line 65 left out
NulTerminate_Skipped ==
    /\ pc = "terminate"
    /\ pc' = "interpret"
    /\ UNCHANGED <<argc, fh, size, heap, code, nread, exitCode, fcloses, frees, out, err>>
    /\ UNCHANGED scanVars

\* line 65: code[size] = '\0';
NulTerminate ==
    /\ pc = "terminate"
    /\ code' = [code EXCEPT ![size + 1] = 0]
    /\ pc' = "interpret"
    /\ UNCHANGED <<argc, fh, size, heap, nread, exitCode, fcloses, frees, out, err>>
    /\ UNCHANGED scanVars

(***************************************************************************)
(* interpret(code), called at line 68                                      *)
(***************************************************************************)
\* lines 10-11: char code_copy[MAX_CODE_SIZE];
\*              strncpy(code_copy, code, sizeof(code_copy));
Strncpy ==
    /\ pc = "interpret"
    /\ code_copy' = strncpy(code, MAX_CODE_SIZE)
    /\ pc' = "copy_end"
    /\ UNCHANGED <<olds, token, hi, toks, cmds, args, out, err>>
    /\ UNCHANGED mainVars

\* line 12: code_copy[sizeof(code_copy) - 1] = '\0';
CopyEnd ==
    /\ pc = "copy_end"
    /\ code_copy' = TerminateCopy(code_copy)
    /\ pc' = "first"
    /\ UNCHANGED <<olds, token, hi, toks, cmds, args, out, err>>
    /\ UNCHANGED mainVars

\* the effect of token = strtok(s, delimiter) on the scan state
CallStrtok(s) ==
    \E r \in {strtok(code_copy, s)} :
        /\ token' = r.tok
        /\ olds' = r.olds
        /\ code_copy' = r.buf
        /\ hi' = Max(hi, r.hi)
        /\ toks' = IF r.tok = NULL
                   THEN toks
                   ELSE Append(toks, [off |-> r.tok, str |-> CStr(r.buf, r.tok)])

\* line 14: char* token = strtok(code_copy, delimiter);
FirstToken ==
    /\ pc = "first"
    /\ CallStrtok(0)
    /\ pc' = "loop"
    /\ UNCHANGED <<cmds, args, out, err>>
    /\ UNCHANGED mainVars

\* lines 15-16: while (token != NULL) { if (strcmp(token, "print") == 0) {
\* and, when the loop ends, the return to line 71
LoopTest ==
    /\ pc = "loop"
    /\ IF token = NULL
       THEN /\ pc' = "free"
            /\ code_copy' = <<>>
            /\ UNCHANGED <<hi, cmds>>
       ELSE /\ hi' = Max(hi, strcmpHi(code_copy, token))
            /\ cmds' = cmds \cup {token}
            /\ pc' = IF IsPrint(code_copy, token) THEN "arg" ELSE "next"
            /\ UNCHANGED code_copy
    /\ UNCHANGED <<olds, token, toks, args, out, err>>
    /\ UNCHANGED mainVars

\* lines 17-22: token = strtok(NULL, delimiter); print it, or report that
\* it is missing
PrintArg ==
    /\ pc = "arg"
    /\ CallStrtok(olds)
    /\ IF token' # NULL
       THEN /\ out' = out \o PrintedLine(code_copy', token')
            /\ args' = args \cup {token'}
            /\ UNCHANGED err
       ELSE /\ err' = Append(err, MissingMsg)
            /\ UNCHANGED <<out, args>>
    /\ pc' = "next"
    /\ UNCHANGED cmds
    /\ UNCHANGED mainVars

\* variant: line 25 left out after a print, so that the argument is the
\* next token the loop examines
NextToken_Skipped ==
    /\ pc = "next"
    /\ IF token # NULL /\ token \in args
       THEN UNCHANGED <<code_copy, olds, token, hi, toks>>
       ELSE CallStrtok(olds)
    /\ pc' = "loop"
    /\ UNCHANGED <<cmds, args, out, err>>
    /\ UNCHANGED mainVars

\* line 25: token = strtok(NULL, delimiter);
NextToken ==
    /\ pc = "next"
    /\ CallStrtok(olds)
    /\ pc' = "loop"
    /\ UNCHANGED <<cmds, args, out, err>>
    /\ UNCHANGED mainVars

(***************************************************************************)
(* main, after interpret returns                                           *)
(***************************************************************************)
\* line 71: free(code);
Free ==
    /\ pc = "free"
    /\ DoFree
    /\ pc' = "fclose"
    /\ UNCHANGED <<argc, fh, size, nread, exitCode, fcloses, out, err>>
    /\ UNCHANGED scanVars

\* variant: main returns 1 when something was written to standard error
Fclose_ErrStatus ==
    /\ pc = "fclose"
    /\ DoFclose
    /\ exitCode' = (IF err = <<>> THEN 0 ELSE 1)
    /\ pc' = "exit"
    /\ UNCHANGED <<argc, size, heap, code, nread, frees, out, err>>
    /\ UNCHANGED scanVars

\* lines 72-74: fclose(file); return 0;
Fclose ==
    /\ pc = "fclose"
    /\ DoFclose
    /\ exitCode' = 0
    /\ pc' = "exit"
    /\ UNCHANGED <<argc, size, heap, code, nread, frees, out, err>>
    /\ UNCHANGED scanVars

Next ==
    \/ CheckArgs
    \/ Fopen
    \/ Ftell
    \/ Malloc
    \/ NoMemFclose
    \/ Fread
    \/ ShortFree
    \/ ShortFclose
    \/ NulTerminate
    \/ Strncpy
    \/ CopyEnd
    \/ FirstToken
    \/ LoopTest
    \/ PrintArg
    \/ NextToken
    \/ Free
    \/ Fclose

Spec == Init /\ [][Next]_vars

(***************************************************************************)
(* Reference definitions for the properties below.  They are written from  *)
(* the text of the input alone and use none of the operators that model    *)
(* the code.                                                               *)
(***************************************************************************)
Whitespace == {32, 9, 10}

\* the source buffer is live and holds the loaded, terminated text
TextLive == pc \in {"interpret", "copy_end", "first", "loop", "arg", "next", "free"}

\* interpret() is between its first strtok call and its return
Scanning == pc \in {"first", "loop", "arg", "next"}

\* the characters of the source buffer before its first terminator
Text == SubSeq(code, 1, Min({i \in 1..Len(code) : code[i] = 0}) - 1)

\* the first MAX_CODE_SIZE - 1 characters of the text, or all of it
Scanned ==
    IF Len(Text) >= MAX_CODE_SIZE THEN SubSeq(Text, 1, MAX_CODE_SIZE - 1) ELSE Text

\* the offset of the working copy's terminator once lines 11-12 have run
Term == IF Len(Text) >= MAX_CODE_SIZE THEN MAX_CODE_SIZE - 1 ELSE Len(Text)

\* the positions of t where a maximal run of non-whitespace starts / ends
RunStarts(t) ==
    {i \in 1..Len(t) : t[i] \notin Whitespace /\ (i = 1 \/ t[i - 1] \in Whitespace)}
RunEnds(t) ==
    {i \in 1..Len(t) : t[i] \notin Whitespace /\ (i = Len(t) \/ t[i + 1] \in Whitespace)}

RECURSIVE Sorted(_)
Sorted(S) == IF S = {} THEN <<>> ELSE <<Min(S)>> \o Sorted(S \ {Min(S)})

\* the whitespace-delimited tokens of t, left to right: 0-based offset and text
TokenList(t) ==
    LET b == Sorted(RunStarts(t))
        e == Sorted(RunEnds(t))
    IN  [k \in 1..Len(b) |-> [off |-> b[k] - 1, str |-> SubSeq(t, b[k], e[k])]]

Strs(ts) == [k \in 1..Len(ts) |-> ts[k].str]

\* the line a successful print of w writes
Line(w) == <<80, 114, 105, 110, 116, 101, 100, 58, 32>> \o w \o <<10>>

\* standard output for a token list: one line per `print` in command
\* position that has a following token, which is its argument
RECURSIVE RefOut(_)
RefOut(ws) ==
    IF ws = <<>> THEN <<>>
    ELSE IF Head(ws) # <<112, 114, 105, 110, 116>> THEN RefOut(Tail(ws))
    ELSE IF Len(ws) = 1 THEN <<>>
    ELSE Line(ws[2]) \o RefOut(Tail(Tail(ws)))

\* the token list ends with `print` in command position
RECURSIVE RefMissing(_)
RefMissing(ws) ==
    IF ws = <<>> THEN FALSE
    ELSE IF Head(ws) # <<112, 114, 105, 110, 116>> THEN RefMissing(Tail(ws))
    ELSE IF Len(ws) = 1 THEN TRUE
    ELSE RefMissing(Tail(Tail(ws)))

Range(s) == {s[i] : i \in DOMAIN s}
Count(s, m) == Cardinality({i \in DOMAIN s : s[i] = m})
Last(s) == s[Len(s)]

C2_ArgumentIsData ==
    \A i \in 1..Len(toks) :
        toks[i].off \in args =>
            /\ toks[i].off \notin cmds
            /\ i > 1
            /\ toks[i - 1].off \in cmds
            /\ toks[i - 1].str = KwPrint

\* `print print x`: the second print is printed, x is a command and ignored
C2_Witness ==
    /\ pc = "free"
    /\ Text = KwPrint \o <<32>> \o KwPrint \o <<32, 120>>
    /\ out = Line(KwPrint)
    /\ err = <<>>

(***************************************************************************)
(* C3 as stated: every input (one that fits the working copy) whose last   *)
(* token is `print` gets the missing-argument message, empty standard      *)
(* output and exit code 0.                                                 *)
(***************************************************************************)
C3_Original ==
    (/\ pc = "exit"
     /\ nread = size
     /\ size < MAX_CODE_SIZE
     /\ toks # <<>>
     /\ Last(toks).str = KwPrint) =>
        /\ MissingMsg \in Range(err)
        /\ out = <<>>
        /\ exitCode = 0

(***************************************************************************)
(* C3 amended: when the last scanned token is `print` in command position, *)
(* standard error holds the missing-argument message and the exit code is  *)
(* 0; standard output holds the lines of the earlier print commands, and   *)
(* is empty exactly when there are none.  A final `print` that is the      *)
(* argument of the print before it is printed and reports no error.        *)
(***************************************************************************)
C3_TrailingPrint ==
    (pc = "exit" /\ nread = size /\ toks # <<>> /\ Last(toks).str = KwPrint) =>
        IF RefMissing(Strs(toks))
        THEN /\ err = <<MissingMsg>>
             /\ exitCode = 0
             /\ out = RefOut(Strs(toks))
             /\ (out = <<>> <=> args = {})
        ELSE /\ err = <<>>
             /\ exitCode = 0
             /\ Last(toks).off \in args

\* `print x print`: one line on standard output, then the message
C3_Witness ==
    /\ pc = "exit"
    /\ Strs(toks) = <<KwPrint, <<120>>, KwPrint>>
    /\ out = Line(<<120>>)
    /\ err = <<MissingMsg>>
    /\ exitCode = 0

(***************************************************************************)
(* C4: the exit code is 1 exactly when the argument count was not 2, the   *)
(* open failed, the allocation failed or fread returned less than size,    *)
(* and 0 otherwise, whatever interpret() reported.                         *)
(***************************************************************************)
Failed ==
    \/ argc # 2
    \/ fh = "none"
    \/ heap = "null"
    \/ (nread # NULL /\ nread # size)

C4_ExitCode ==
    pc = "exit" => exitCode = (IF Failed THEN 1 ELSE 0)

\* a run that reported a missing argument and exits 0
C4_Witness ==
    /\ pc = "exit"
    /\ exitCode = 0
    /\ err = <<MissingMsg>>

(***************************************************************************)
(* C5: the working copy holds the first MAX_CODE_SIZE - 1 characters of    *)
(* the text (all of it when it is shorter) followed by terminators, and    *)
(* what interpret() writes is what the tokens of that prefix call for.     *)
(***************************************************************************)
C5_Truncation ==
    /\ pc = "first" =>
          code_copy = Scanned \o [i \in 1..(MAX_CODE_SIZE - Len(Scanned)) |-> 0]
    /\ pc = "free" =>
          /\ out = RefOut(Strs(TokenList(Scanned)))
          /\ err = IF RefMissing(Strs(TokenList(Scanned))) THEN <<MissingMsg>> ELSE <<>>

\* a text of MAX_CODE_SIZE characters or more whose argument is cut to `p`
C5_Witness ==
    /\ pc = "free"
    /\ Len(Text) >= MAX_CODE_SIZE
    /\ out = Line(<<112>>)

(***************************************************************************)
(* C6: when main returns, the file is closed if it was opened and the      *)
(* buffer freed if it was allocated, each once, and the buffer is live     *)
(* whenever interpret() runs.                                              *)
(***************************************************************************)
C6_Released ==
    /\ fcloses <= 1
    /\ frees <= 1
    /\ pc = "exit" =>
          /\ fh \in {"none", "closed"}
          /\ heap \in {"none", "null", "freed"}
          /\ fcloses = (IF fh = "closed" THEN 1 ELSE 0)
          /\ frees = (IF heap = "freed" THEN 1 ELSE 0)
    /\ TextLive => (heap = "live" /\ frees = 0)

\* the short-read path: buffer freed and file closed once each
C6_Witness ==
    /\ pc = "exit"
    /\ err = <<ReadMsg>>
    /\ frees = 1
    /\ fcloses = 1

(***************************************************************************)
(* C7: interpret() runs only with two arguments, the file open, the buffer *)
(* allocated, size characters read and the terminator at offset size; a    *)
(* run that exits 1 wrote exactly one message to standard error, nothing   *)
(* to standard output, and never ran a later step.                         *)
(***************************************************************************)
C7_Order ==
    /\ TextLive =>
          /\ argc = 2
          /\ fh = "open"
          /\ heap = "live"
          /\ nread = size
          /\ Len(code) = size + 1
          /\ code[size + 1] = 0
    /\ (pc = "exit" /\ exitCode = 1) =>
          /\ Len(err) = 1
          /\ out = <<>>
          /\ olds = NULL /\ hi = NULL /\ toks = <<>>
          /\ err = <<UsageMsg>> => (fh = "none" /\ heap = "none")
          /\ err = <<OpenMsg>> => (fh = "none" /\ heap = "none")
          /\ err = <<AllocMsg>> => (heap = "null" /\ nread = NULL)
          /\ err = <<ReadMsg>> => nread < size
    /\ (pc = "exit" /\ exitCode = 0) => olds # NULL

\* interpret() has run on a loaded file and printed something
C7_Witness ==
    /\ pc = "free"
    /\ out # <<>>
    /\ size > 0

ScanMeasure ==
    IF pc = "first" THEN 4 * Term + 8
    ELSE 4 * (Term - olds) +
         (CASE pc = "loop" /\ token # NULL -> 3
            [] pc = "arg" -> 2
            [] pc = "next" -> 1
            [] OTHER -> 0)

C9_Tokens ==
    /\ \A i \in 1..Len(toks) :
          /\ toks[i].str # <<>>
          /\ Range(toks[i].str) \cap (Whitespace \cup {0}) = {}
          /\ i > 1 => toks[i - 1].off + Len(toks[i - 1].str) < toks[i].off
    /\ (pc = "loop" /\ token # NULL) =>
          /\ token = Last(toks).off
          /\ token \notin cmds \cup args
    /\ pc = "free" => toks = TokenList(Scanned)

C9_Advance ==
    /\ olds' >= olds
    /\ Len(toks') >= Len(toks)
    /\ (Scanning /\ Scanning') => (ScanMeasure' < ScanMeasure /\ ScanMeasure' >= 0)
    /\ (Scanning /\ ~Scanning') => (pc = "loop" /\ token = NULL /\ pc' = "free")

C9_Termination == []C9_Tokens /\ [][C9_Advance]_vars

\* three tokens, with consecutive delimiters between them, all visited
C9_Witness ==
    /\ pc = "free"
    /\ Len(toks) = 3
    /\ Len(Text) > Len(Flatten(Strs(toks))) + 2

(***************************************************************************)
(* C10: the missing-argument message is written at most once, exactly when *)
(* the scanned text ends with `print` in command position, and nothing is  *)
(* written after it: the next extraction finds no token and the loop ends. *)
(***************************************************************************)
C10_State ==
    /\ Count(err, MissingMsg) <= 1
    /\ pc = "free" =>
          (MissingMsg \in Range(err) <=> RefMissing(Strs(TokenList(Scanned))))
    /\ (MissingMsg \in Range(err) /\ pc = "loop") => token = NULL

C10_Final == MissingMsg \in Range(err) => (out' = out /\ err' = err)

C10_MissingOnceAndLast == []C10_State /\ [][C10_Final]_vars

\* a line was printed, then the message was written, and the scan is over
C10_Witness ==
    /\ pc = "free"
    /\ err = <<MissingMsg>>
    /\ out # <<>>

====
